---- MODULE Spec2Model ----
(***************************************************************************)
(* Diagnostic Tutor Prototype (src/main.py).                               *)
(*                                                                         *)
(* A Python str is modelled as a sequence of one-character strings, so     *)
(* that normalisation, the regular expressions and int() are computed      *)
(* character by character, as the interpreter computes them.               *)
(***************************************************************************)
EXTENDS Integers, Sequences, FiniteSets, TLC

VARIABLES
  pc,               \* main(): "loop" while reading lines, "done" after the break
  SYMPY_AVAILABLE,  \* whether `import sympy` succeeded
  last_rule,        \* log.last_rule
  streak,           \* log.streak
  expr,             \* the text of the latest analyze_expression call
  result,           \* its detection result (NoResult when no detector matched)
  analyze_streak,   \* its local `streak`, the value log.record returned (0: not called)
  hint,             \* the hint it returned
  trace,            \* the calls it made, in order
  simplify_outcome  \* how its equality check ended (NotCalled when not reached)

vars ==
  <<pc, SYMPY_AVAILABLE, last_rule, streak, expr, result, analyze_streak, hint, trace,
    simplify_outcome>>

\* ------------------------------------------------------------------------
\* Bounds of the model
\* ------------------------------------------------------------------------
\* Largest streak a session is followed to (Python ints are unbounded).
MaxStreak == 3

\* Largest exponent written in the texts "d/dx(x^N)=x^M" that are submitted.
MaxExp == 5

\* ------------------------------------------------------------------------
\* Characters and strings
\* ------------------------------------------------------------------------
None == "None"

UpperLetters ==
  <<"A","B","C","D","E","F","G","H","I","J","K","L","M",
    "N","O","P","Q","R","S","T","U","V","W","X","Y","Z">>

LowerLetters ==
  <<"a","b","c","d","e","f","g","h","i","j","k","l","m",
    "n","o","p","q","r","s","t","u","v","w","x","y","z">>

DigitChars == <<"0","1","2","3","4","5","6","7","8","9">>

Range(s) == {s[i] : i \in 1..Len(s)}

IndexOf(seq, c) == CHOOSE i \in 1..Len(seq) : seq[i] = c

\* str.strip() and str.isspace(): the whitespace characters a line can hold.
Whitespace == {" ", "\t"}

\* str.lower() on one character.
lower_char(c) ==
  IF c \in Range(UpperLetters) THEN LowerLetters[IndexOf(UpperLetters, c)] ELSE c

\* str.lower()
lower(s) == [i \in 1..Len(s) |-> lower_char(s[i])]

\* str.replace(old, "") for a one-character old.
replace(s, old) == SelectSeq(s, LAMBDA c : c # old)

\* str.strip(): leading and trailing whitespace removed.
RECURSIVE lstrip(_)
lstrip(s) == IF s # <<>> /\ Head(s) \in Whitespace THEN lstrip(Tail(s)) ELSE s

RECURSIVE rstrip(_)
rstrip(s) ==
  IF s # <<>> /\ s[Len(s)] \in Whitespace THEN rstrip(SubSeq(s, 1, Len(s) - 1)) ELSE s

strip(s) == rstrip(lstrip(s))

\* Faulty variant of normalize: the text is not lowercased.
normalize_no_lower(e) == replace(e, " ")

\* normalize(expr): expr.replace(" ", "").lower()
normalize(e) == lower(replace(e, " "))

\* int() of a string of ASCII digits.
RECURSIVE int(_)
int(ds) ==
  IF ds = <<>> THEN 0
  ELSE 10 * int(SubSeq(ds, 1, Len(ds) - 1)) + (IndexOf(DigitChars, ds[Len(ds)]) - 1)

\* ------------------------------------------------------------------------
\* Regular expressions (re.fullmatch)
\* ------------------------------------------------------------------------
\* A pattern is a sequence of elements [t, cs, g]: t = "lit" one character of
\* cs; t = "opt" an optional character of cs; t = "plus" one or more characters
\* of cs, captured as group g.
Lit(c) == [t |-> "lit", cs |-> {c}, g |-> 0]
Opt(c) == [t |-> "opt", cs |-> {c}, g |-> 0]
Plus(cs, g) == [t |-> "plus", cs |-> cs, g |-> g]
Lits(s) == [i \in 1..Len(s) |-> Lit(s[i])]

\* All ways pattern elements i.. match s from position pos up to its end,
\* each as the tuple of its groups.
RECURSIVE MatchFrom(_, _, _, _, _)
MatchFrom(pat, i, s, pos, caps) ==
  IF i > Len(pat) THEN (IF pos = Len(s) + 1 THEN {caps} ELSE {})
  ELSE
    LET el == pat[i]
        here == pos <= Len(s) /\ s[pos] \in el.cs
    IN  CASE el.t = "lit" ->
               IF here THEN MatchFrom(pat, i + 1, s, pos + 1, caps) ELSE {}
          [] el.t = "opt" ->
               (IF here THEN MatchFrom(pat, i + 1, s, pos + 1, caps) ELSE {})
               \cup MatchFrom(pat, i + 1, s, pos, caps)
          [] el.t = "plus" ->
               UNION { MatchFrom(pat, i + 1, s, pos + k,
                                 [caps EXCEPT ![el.g] = SubSeq(s, pos, pos + k - 1)])
                       : k \in { n \in 1..(Len(s) + 1 - pos) :
                                   \A j \in pos..(pos + n - 1) : s[j] \in el.cs } }

\* re.fullmatch(pattern, s): the set of group tuples of the matches; empty when
\* there is no match (None).
fullmatch(pat, ngroups, s) == MatchFrom(pat, 1, s, 1, [g \in 1..ngroups |-> <<>>])

\* r"d/dx\(?x\^?2\)?=x"
PowerLiteralRe ==
  Lits(<<"d","/","d","x">>) \o <<Opt("("), Lit("x"), Opt("^"), Lit("2"), Opt(")")>>
  \o Lits(<<"=","x">>)

\* r"d/dx\(?x\^?(\d+)\)?=x\^?(\d+)"
PowerGeneralRe ==
  Lits(<<"d","/","d","x">>)
  \o <<Opt("("), Lit("x"), Opt("^"), Plus(Range(DigitChars), 1), Opt(")")>>
  \o Lits(<<"=","x">>) \o <<Opt("^"), Plus(Range(DigitChars), 2)>>

\* r"\(a\+b\)\^2=a\^2\+b\^2"
DreamLiteralRe ==
  Lits(<<"(","a","+","b",")","^","2","=","a","^","2","+","b","^","2">>)

\* r"\(([a-z]+)\+([a-z]+)\)\^2=([a-z]+)\^2\+([a-z]+)\^2"
DreamGeneralRe ==
  <<Lit("("), Plus(Range(LowerLetters), 1), Lit("+"), Plus(Range(LowerLetters), 2)>>
  \o Lits(<<")","^","2","=">>)
  \o <<Plus(Range(LowerLetters), 3)>> \o Lits(<<"^","2","+">>)
  \o <<Plus(Range(LowerLetters), 4)>> \o Lits(<<"^","2">>)

\* ------------------------------------------------------------------------
\* Detection results: (rule_id, base_hint, escalated_hint)
\* ------------------------------------------------------------------------
NoResult == [rule_id |-> None, base_hint |-> None, escalated_hint |-> None]

PowerLiteralResult ==
  [rule_id |-> "power_rule_missing_coefficient",
   base_hint |-> "power_literal_base", escalated_hint |-> "power_literal_escalated"]

PowerGeneralResult ==
  [rule_id |-> "power_rule_missing_coefficient",
   base_hint |-> "power_general_base", escalated_hint |-> "power_general_escalated"]

DreamLiteralResult ==
  [rule_id |-> "freshman_dream",
   base_hint |-> "dream_literal_base", escalated_hint |-> "dream_literal_escalated"]

DreamGeneralResult ==
  [rule_id |-> "freshman_dream",
   base_hint |-> "dream_general_base", escalated_hint |-> "dream_general_escalated"]

DreamSymbolicResult ==
  [rule_id |-> "freshman_dream",
   base_hint |-> "dream_symbolic_base", escalated_hint |-> "dream_symbolic_escalated"]

UnequalHint == "sides_not_equal"

NeutralHint == "no_misconception_detected"

\* ------------------------------------------------------------------------
\* The Equivalence Checker (sympy), an external collaborator: a call made on
\* a text ends in one of these outcomes.
\* ------------------------------------------------------------------------
NotCalled == "not_called"

\* sp.expand(sp.sympify(.)) on both sides, then the scan of the difference's
\* terms: an exception, no term with coefficient 2 over two variables (equal
\* sides included), or such a term.
ExpandOutcomes == {"raises", "no_cross_term", "cross_term"}

\* sp.simplify(.) on both sides, then `not sp.Eq(left, right)`: an exception
\* (a parse failure, or a relation with no truth value), equal, or unequal.
SimplifyOutcomes == {"raises", "equal", "unequal"}

\* ------------------------------------------------------------------------
\* Detectors
\* ------------------------------------------------------------------------
\* Faulty variant of power_guard: the n_left != 1 test is left out.
power_guard_no_degenerate(n_left, n_right) == n_left - 1 = n_right

\* if n_left - 1 == n_right and n_left != 1
power_guard(n_left, n_right) == n_left - 1 = n_right /\ n_left # 1

\* The generalized power-rule pattern on normalized text.
power_general(compact) ==
  LET match == fullmatch(PowerGeneralRe, 2, compact)
  IN  /\ match # {}
      /\ LET groups == CHOOSE m \in match : TRUE
         IN  power_guard(int(groups[1]), int(groups[2]))

\* Faulty variant of hint_power_rule: the generalized pattern reports a rule
\* identifier of its own.
hint_power_rule_own_id(e) ==
  LET compact == normalize(e)
  IN  IF fullmatch(PowerLiteralRe, 0, compact) # {} THEN PowerLiteralResult
      ELSE IF power_general(compact)
           THEN [PowerGeneralResult EXCEPT !.rule_id = "power_rule_general"]
           ELSE NoResult

hint_power_rule(e) ==
  LET compact == normalize(e)
  IN  IF fullmatch(PowerLiteralRe, 0, compact) # {} THEN PowerLiteralResult
      ELSE IF power_general(compact) THEN PowerGeneralResult
      ELSE NoResult

\* Python's < on two strings of lowercase letters (by code point, a prefix
\* first).
RECURSIVE str_lt(_, _)
str_lt(a, b) ==
  IF b = <<>> THEN FALSE
  ELSE IF a = <<>> THEN TRUE
  ELSE IF a[1] = b[1] THEN str_lt(Tail(a), Tail(b))
  ELSE IndexOf(LowerLetters, a[1]) < IndexOf(LowerLetters, b[1])

\* sorted() of a two-element list of strings.
sorted(pair) == IF str_lt(pair[2], pair[1]) THEN <<pair[2], pair[1]>> ELSE pair

\* Faulty variant of same_vars: the comparison keeps the order.
same_vars_ordered(left_a, left_b, right_a, right_b) ==
  <<left_a, left_b>> = <<right_a, right_b>>

\* same_vars = sorted([left_a, left_b]) == sorted([right_a, right_b])
same_vars(left_a, left_b, right_a, right_b) ==
  sorted(<<left_a, left_b>>) = sorted(<<right_a, right_b>>)

\* The generalized binomial pattern on normalized text.
dream_general(compact) ==
  LET general == fullmatch(DreamGeneralRe, 4, compact)
  IN  /\ general # {}
      /\ LET groups == CHOOSE m \in general : TRUE
         IN  same_vars(groups[1], groups[2], groups[3], groups[4])

\* The two textual patterns of hint_freshman_dream.
dream_textual(e) ==
  LET compact == normalize(e)
  IN  IF fullmatch(DreamLiteralRe, 0, compact) # {} THEN DreamLiteralResult
      ELSE IF dream_general(compact) THEN DreamGeneralResult
      ELSE NoResult

\* if SYMPY_AVAILABLE and "=" in expr (the raw text)
consults_checker(e, available) == available /\ "=" \in Range(e)

\* hint_freshman_dream(expr); fb is the outcome of the symbolic fallback when
\* it is consulted.
hint_freshman_dream(e, available, fb) ==
  LET textual == dream_textual(e)
  IN  IF textual # NoResult THEN textual
      ELSE IF consults_checker(e, available) /\ fb = "cross_term"
           THEN DreamSymbolicResult
           ELSE NoResult

\* Whether hint_freshman_dream(expr) reaches the symbolic fallback.
dream_reaches_fallback(e, available) ==
  dream_textual(e) = NoResult /\ consults_checker(e, available)

\* ------------------------------------------------------------------------
\* InteractionLog
\* ------------------------------------------------------------------------
\* InteractionLog.__init__
new_log == [last_rule |-> None, streak |-> 0]

\* Faulty variant of record: a repeated rule starts over at 1.
record_no_increment(log, rule_id) == [last_rule |-> rule_id, streak |-> 1]

\* InteractionLog.record: the log afterwards; the value returned is its streak.
record(log, rule_id) ==
  IF rule_id = log.last_rule
    THEN [log EXCEPT !.streak = log.streak + 1]
    ELSE [last_rule |-> rule_id, streak |-> 1]

\* Faulty variant of reset: the streak is kept.
reset_keeps_streak(log) == [log EXCEPT !.last_rule = None]

\* InteractionLog.reset
reset(log) == [last_rule |-> None, streak |-> 0]

\* ------------------------------------------------------------------------
\* analyze_expression
\* ------------------------------------------------------------------------
PEDAGOGICAL_GRAPH_NODES == <<"hint_power_rule", "hint_freshman_dream">>

EscalationThreshold == 2

\* detector(expr): the result, and the collaborator calls the detector made.
call_detector(name, e, available, fb) ==
  CASE name = "hint_power_rule" ->
         [result |-> hint_power_rule(e), calls |-> <<>>]
    [] name = "hint_freshman_dream" ->
         [result |-> hint_freshman_dream(e, available, fb),
          calls |-> IF dream_reaches_fallback(e, available)
                      THEN <<"sp.expand">> ELSE <<>>]

\* Faulty variant of run_detectors: every detector is evaluated and the last
\* non-empty result is kept.
RECURSIVE run_all_detectors(_, _, _, _, _)
run_all_detectors(i, e, available, fb, tr) ==
  IF i > Len(PEDAGOGICAL_GRAPH_NODES) THEN [result |-> NoResult, trace |-> tr]
  ELSE
    LET d == call_detector(PEDAGOGICAL_GRAPH_NODES[i], e, available, fb)
        rest == run_all_detectors(i + 1, e, available, fb,
                                  tr \o <<PEDAGOGICAL_GRAPH_NODES[i]>> \o d.calls)
    IN  IF rest.result # NoResult THEN rest
        ELSE [result |-> d.result, trace |-> rest.trace]

\* for detector in PEDAGOGICAL_GRAPH_NODES: result = detector(expr); if result: ...
\* The first non-empty result from detector i on, and the calls made so far.
RECURSIVE run_detectors(_, _, _, _, _)
run_detectors(i, e, available, fb, tr) ==
  IF i > Len(PEDAGOGICAL_GRAPH_NODES) THEN [result |-> NoResult, trace |-> tr]
  ELSE
    LET d == call_detector(PEDAGOGICAL_GRAPH_NODES[i], e, available, fb)
        tr2 == tr \o <<PEDAGOGICAL_GRAPH_NODES[i]>> \o d.calls
    IN  IF d.result # NoResult THEN [result |-> d.result, trace |-> tr2]
        ELSE run_detectors(i + 1, e, available, fb, tr2)

\* Faulty variant of choose_hint: escalation starts one occurrence later.
choose_hint_late(s, res) ==
  IF s >= EscalationThreshold + 1 THEN res.escalated_hint ELSE res.base_hint

\* return escalated_hint if streak >= 2 else base_hint
choose_hint(s, res) ==
  IF s >= EscalationThreshold THEN res.escalated_hint ELSE res.base_hint

Raised == "Exception"

\* Faulty variant of equality_check: the checker's exception is not caught.
equality_check_uncaught(e, available, eq) ==
  IF consults_checker(e, available) /\ eq = "unequal" THEN UnequalHint
  ELSE IF consults_checker(e, available) /\ eq = "raises" THEN Raised
  ELSE NeutralHint

\* The tail of analyze_expression after log.reset(): the hint returned.
equality_check(e, available, eq) ==
  IF consults_checker(e, available) /\ eq = "unequal" THEN UnequalHint
  ELSE NeutralHint

\* analyze_expression(expr, log), given what the detectors found: the log
\* afterwards, the local variables, the hint returned and the calls made.
analyze_expression(e, log, available, found, eq) ==
  IF found.result # NoResult
    THEN LET after == record(log, found.result.rule_id)
         IN  [log |-> after, result |-> found.result, streak |-> after.streak,
              hint |-> choose_hint(after.streak, found.result),
              trace |-> found.trace \o <<"log.record">>]
    ELSE [log |-> reset(log), result |-> NoResult, streak |-> 0,
          hint |-> equality_check(e, available, eq),
          trace |-> found.trace \o <<"log.reset">>
                    \o (IF consults_checker(e, available)
                          THEN <<"sp.simplify">> ELSE <<>>)]

\* ------------------------------------------------------------------------
\* The lines a user types
\* ------------------------------------------------------------------------
\* str(n) for a natural number n.
RECURSIVE str(_)
str(n) ==
  IF n < 10 THEN <<DigitChars[n + 1]>>
  ELSE str(n \div 10) \o <<DigitChars[(n % 10) + 1]>>

\* str.upper()
upper(s) ==
  [i \in 1..Len(s) |->
     IF s[i] \in Range(LowerLetters)
       THEN UpperLetters[IndexOf(LowerLetters, s[i])] ELSE s[i]]

\* "d/dx(x^N)=x^M"
PowerText(N, M) ==
  <<"d","/","d","x","(","x","^">> \o str(N) \o <<")","=","x","^">> \o str(M)

\* "(U+V)^2=P^2+Q^2"
BinomText(U, V, P, Q) ==
  <<"(">> \o U \o <<"+">> \o V \o <<")","^","2","=">> \o P \o <<"^","2","+">>
  \o Q \o <<"^","2">>

Idents == {<<"a">>, <<"b">>, <<"c">>}

LongIdents == {<<"a">>, <<"a","b">>, <<"a","a">>}

PowerLiteralText == <<"d","/","d","x","(","x","^","2",")","=","x">>

XYText == BinomText(<<"x">>, <<"y">>, <<"x">>, <<"y">>)

\* s with character c put in before position k + 1.
InsertAt(s, k, c) == SubSeq(s, 1, k) \o <<c>> \o SubSeq(s, k + 1, Len(s))

DecoratedBases ==
  {PowerLiteralText, PowerText(3, 2), BinomText(<<"a">>, <<"b">>, <<"a">>, <<"b">>),
   BinomText(<<"b">>, <<"a">>, <<"a">>, <<"b">>)}

\* Exponents of two digits.
LongExponents ==
  {<<10, 9>>, <<9, 10>>, <<10, 10>>, <<11, 10>>, <<10, 1>>, <<1, 10>>, <<20, 19>>,
   <<21, 20>>, <<12, 1>>}

PowerTexts ==
  {PowerText(N, M) : N \in 0..MaxExp, M \in 0..MaxExp}
  \cup {PowerText(p[1], p[2]) : p \in LongExponents}

BinomTexts ==
  {BinomText(U, V, P, Q) : U \in Idents, V \in Idents, P \in Idents, Q \in Idents}
  \cup {BinomText(U, <<"a">>, P, Q) : U \in LongIdents, P \in LongIdents, Q \in LongIdents}

LiteralVariants ==
  {<<"d","/","d","x">> \o lp \o <<"x">> \o c \o <<"2">> \o rp \o <<"=","x">> :
     lp \in {<<>>, <<"(">>}, c \in {<<>>, <<"^">>}, rp \in {<<>>, <<")">>}}

Decorated ==
  {upper(s) : s \in DecoratedBases \cup {XYText}}
  \cup {InsertAt(PowerLiteralText, k, c) : k \in 0..Len(PowerLiteralText), c \in Whitespace}
  \cup {InsertAt(s, 7, c) : s \in DecoratedBases, c \in Whitespace}
  \cup {upper(InsertAt(s, 9, " ")) : s \in DecoratedBases}

OtherTexts ==
  { <<"2","+","2","=","4">>, <<"2","+","2","=","5">>, <<"x","=","y">>,
    <<"x","+","1">>, <<"h","e","l","l","o">>,
    <<"d","/","d","x","(","x","^","0","2",")","=","x","^","1">>,
    <<"d","/","d","x","(","x","2",")","=","x","1">>,
    <<"d","/","d","x"," ","x","^","3"," ","="," ","x","^","2">>,
    <<"(","x","+","y",")","*","*","2","=","x","*","*","2","+","y","*","*","2">>,
    <<"(","E","+","y",")","*","*","2","=","E","*","*","2","+","y","*","*","2">> }

ExitTexts ==
  { <<>>, <<" ">>, <<"\t">>, <<"e","x","i","t">>, <<"E","X","I","T">>,
    <<" ","E","x","i","t","\t">> }

Lines == PowerTexts \cup BinomTexts \cup LiteralVariants \cup Decorated
         \cup OtherTexts \cup ExitTexts \cup {XYText}

\* user_input == "" or user_input.lower() == "exit"
is_exit(user_input) == user_input = <<>> \/ lower(user_input) = <<"e","x","i","t">>

\* user_input = input(...).strip()
UserInputs == {strip(l) : l \in Lines}

\* The texts main() passes on to analyze_expression.
Inputs == {u \in UserInputs : ~is_exit(u)}

\* One call of analyze_expression: the text, whether sympy was imported, what
\* the collaborator answers where it is consulted (fb in hint_freshman_dream,
\* eq in analyze_expression), and what the detector loop finds.
CallsOn(e, available) ==
  UNION { LET found == run_detectors(1, e, available, fb, <<>>)
          IN  { [expr |-> e, available |-> available, fb |-> fb, eq |-> eq,
                 found |-> found]
                : eq \in (IF found.result = NoResult /\ consults_checker(e, available)
                            THEN SimplifyOutcomes ELSE {NotCalled}) }
          : fb \in (IF dream_reaches_fallback(e, available)
                      THEN ExpandOutcomes ELSE {NotCalled}) }

CallsWithSympy == UNION {CallsOn(e, TRUE) : e \in Inputs}

CallsWithoutSympy == UNION {CallsOn(e, FALSE) : e \in Inputs}

\* The rule identifiers the detectors report.
RuleIds ==
  {c.found.result.rule_id : c \in CallsWithSympy \cup CallsWithoutSympy} \ {None}

\* The states of an InteractionLog, up to the streak bound.
LogStates ==
  {new_log} \cup {[last_rule |-> r, streak |-> n] : r \in RuleIds, n \in 1..MaxStreak}

\* What analyze_expression does on `log` for each of the calls.
Returns(calls, log) ==
  { [expr |-> c.expr, eq |-> c.eq,
     out |-> analyze_expression(c.expr, log, c.available, c.found, c.eq)] : c \in calls }

StepsWithSympy ==
  {[log |-> l, returns |-> Returns(CallsWithSympy, l)] : l \in LogStates}

StepsWithoutSympy ==
  {[log |-> l, returns |-> Returns(CallsWithoutSympy, l)] : l \in LogStates}

\* ------------------------------------------------------------------------
\* main(): the read loop of one session
\* ------------------------------------------------------------------------
Init ==
  /\ pc = "loop"
  /\ SYMPY_AVAILABLE \in BOOLEAN
  /\ last_rule = new_log.last_rule
  /\ streak = new_log.streak
  /\ expr = <<>>
  /\ result = NoResult
  /\ analyze_streak = 0
  /\ hint = None
  /\ trace = <<>>
  /\ simplify_outcome = NotCalled

\* hint = analyze_expression(user_input, log)
MainAnalyze ==
  /\ pc = "loop"
  /\ \E step \in (IF SYMPY_AVAILABLE THEN StepsWithSympy ELSE StepsWithoutSympy) :
       /\ step.log = [last_rule |-> last_rule, streak |-> streak]
       /\ \E r \in step.returns :
            /\ r.out.log.streak <= MaxStreak
            /\ expr' = r.expr
            /\ last_rule' = r.out.log.last_rule
            /\ streak' = r.out.log.streak
            /\ result' = r.out.result
            /\ analyze_streak' = r.out.streak
            /\ hint' = r.out.hint
            /\ trace' = r.out.trace
            /\ simplify_outcome' = r.eq
  /\ UNCHANGED <<pc, SYMPY_AVAILABLE>>

\* The loop ends on an empty line or on "exit".
MainExit ==
  /\ pc = "loop"
  /\ \E user_input \in UserInputs : is_exit(user_input)
  /\ pc' = "done"
  /\ UNCHANGED <<SYMPY_AVAILABLE, last_rule, streak, expr, result, analyze_streak, hint,
                 trace, simplify_outcome>>

Next == MainAnalyze \/ MainExit

Spec == Init /\ [][Next]_vars

\* ------------------------------------------------------------------------
\* Properties
\* ------------------------------------------------------------------------
\* A call of analyze_expression has returned.
Called == trace # <<>>

Count(seq, x) == Cardinality({i \in 1..Len(seq) : seq[i] = x})

EscalatedHints ==
  {PowerLiteralResult.escalated_hint, PowerGeneralResult.escalated_hint,
   DreamLiteralResult.escalated_hint, DreamGeneralResult.escalated_hint,
   DreamSymbolicResult.escalated_hint}

\* C1: in every reachable state of the log, either last_rule is null and
\* streak is 0, or last_rule is non-null and streak is at least 1.
C1_LogInvariant ==
  \/ (last_rule = None /\ streak = 0)
  \/ (last_rule # None /\ streak >= 1)

\* A session that ended with a rule detected twice in a row.
C1_Witness == Called /\ last_rule # None /\ streak = 2 /\ pc = "done"

\* C2: a call that detects the rule of the call before it returns the previous
\* streak plus 1; a call that detects a rule other than last_rule (or on an
\* idle log) makes the streak 1 and last_rule that rule; a call that detects
\* nothing leaves the log idle.
C2_StreakStep ==
  [][ pc' = "loop" =>
        /\ (result'.rule_id # None /\ result'.rule_id = last_rule) =>
             /\ analyze_streak' = streak + 1
             /\ streak' = streak + 1
             /\ last_rule' = last_rule
        /\ (result.rule_id # None /\ result'.rule_id = result.rule_id) =>
             analyze_streak' = analyze_streak + 1
        /\ (result'.rule_id # None /\ result'.rule_id # last_rule) =>
             /\ analyze_streak' = 1
             /\ streak' = 1
             /\ last_rule' = result'.rule_id
        /\ result'.rule_id = None => (last_rule' = None /\ streak' = 0)
    ]_vars

C2_Witness == result.rule_id = "freshman_dream" /\ analyze_streak = 3 /\ streak = 3

\* C3: the hint returned is the detection's escalated text if and only if the
\* streak log.record returned is at least 2; a match with streak 1 returns the
\* base text; a call without a match never returns an escalated text.
C3_EscalationThreshold ==
  Called =>
    /\ (result # NoResult /\ analyze_streak >= 2) => hint = result.escalated_hint
    /\ (result # NoResult /\ analyze_streak < 2) =>
         (analyze_streak = 1 /\ hint = result.base_hint)
    /\ hint \in EscalatedHints =>
         (result # NoResult /\ hint = result.escalated_hint /\ analyze_streak >= 2)
    /\ result = NoResult => (hint \notin EscalatedHints /\ analyze_streak = 0)
    /\ result # NoResult => analyze_streak = streak

C3_Witness ==
  /\ result = PowerGeneralResult
  /\ analyze_streak = 2
  /\ hint = PowerGeneralResult.escalated_hint

\* C4: with the Equivalence Checker available, "(x+y)^2=x^2+y^2" returns the
\* hint of the symbolic fallback, not that of a textual pattern.
C4_SymbolicHintForXY ==
  (Called /\ SYMPY_AVAILABLE /\ expr = XYText) =>
    hint \in {DreamSymbolicResult.base_hint, DreamSymbolicResult.escalated_hint}

\* str.isupper() on one character.
IsUpper(c) == c \in Range(UpperLetters)

\* The text with every character of `drop` removed and the letters lowercased,
\* built one character at a time.
RECURSIVE Canonical(_, _)
Canonical(s, drop) ==
  IF s = <<>> THEN <<>>
  ELSE IF Head(s) \in drop THEN Canonical(Tail(s), drop)
  ELSE <<IF IsUpper(Head(s))
           THEN LowerLetters[IndexOf(UpperLetters, Head(s))] ELSE Head(s)>>
       \o Canonical(Tail(s), drop)

\* What the textual patterns find on each text, by the text without its spaces
\* and letter case.
TextualFindings ==
  {<<Canonical(e, {" "}), hint_power_rule(e), dream_textual(e)>> : e \in Inputs}

\* C5 as stated: normalize removes every whitespace character (tab included)
\* and lowercases every letter.
C5_RemovesAllWhitespace ==
  Called =>
    /\ \A i \in 1..Len(normalize(expr)) :
         normalize(expr)[i] \notin Whitespace /\ ~IsUpper(normalize(expr)[i])
    /\ normalize(expr) = Canonical(expr, Whitespace)

\* C5, amended: normalize removes every space character (and no other
\* whitespace: a tab stays) and lowercases every letter; texts that differ only
\* in spaces and letter case normalize to the same text and get the same result
\* from the textual patterns.
C5_RemovesSpaces ==
  Called =>
    /\ \A i \in 1..Len(normalize(expr)) :
         normalize(expr)[i] # " " /\ ~IsUpper(normalize(expr)[i])
    /\ normalize(expr) = Canonical(expr, {" "})
    /\ Count(normalize(expr), "\t") = Count(expr, "\t")
    /\ \A t \in TextualFindings :
         t[1] = Canonical(expr, {" "}) =>
           (t[2] = hint_power_rule(expr) /\ t[3] = dream_textual(expr))
    /\ result \in {hint_power_rule(expr), dream_textual(expr), DreamSymbolicResult}

\* "D/DX(X^2) =X" (a space inside, capitals) is found by the literal pattern.
C5_Witness ==
  /\ expr = upper(InsertAt(PowerLiteralText, 9, " "))
  /\ result = PowerLiteralResult

\* C6: when no detector matches and the Equivalence Checker is absent, fails,
\* or finds the sides equal, the neutral hint is returned (no error comes out)
\* and the log is idle afterwards.
C6_NeutralFallThrough ==
  (Called /\ result = NoResult /\ simplify_outcome \in {NotCalled, "raises", "equal"}) =>
    /\ hint = NeutralHint
    /\ last_rule = None
    /\ streak = 0

C6_Witness ==
  /\ Called
  /\ result = NoResult
  /\ simplify_outcome = "raises"
  /\ hint = NeutralHint
  /\ Count(trace, "log.reset") = 1

\* The texts "(U+V)^2=P^2+Q^2" submitted, with their identifiers.
BinomShapes ==
  {<<BinomText(U, V, P, Q), U, V, P, Q>> :
     U \in Idents, V \in Idents, P \in Idents, Q \in Idents}
  \cup {<<BinomText(U, <<"a">>, P, Q), U, <<"a">>, P, Q>> :
          U \in LongIdents, P \in LongIdents, Q \in LongIdents}

\* C7: the generalized binomial pattern flags "(U+V)^2=P^2+Q^2" if and only if
\* the unordered pairs {U,V} and {P,Q} are equal.
C7_SymbolIdentityGuard ==
  Called =>
    \A t \in BinomShapes :
      expr = t[1] =>
        /\ dream_general(normalize(expr)) <=> ({t[2], t[3]} = {t[4], t[5]})
        /\ (result = DreamGeneralResult) <=>
             ({t[2], t[3]} = {t[4], t[5]} /\ dream_textual(expr) # DreamLiteralResult)

\* "(b+a)^2=a^2+b^2": the pairs are equal in the other order.
C7_Witness ==
  /\ expr = BinomText(<<"b">>, <<"a">>, <<"a">>, <<"b">>)
  /\ result = DreamGeneralResult

\* The texts "d/dx(x^N)=x^M" submitted, with their exponents.
PowerShapes ==
  {<<PowerText(N, M), N, M>> : N \in 0..MaxExp, M \in 0..MaxExp}
  \cup {<<PowerText(p[1], p[2]), p[1], p[2]>> : p \in LongExponents}

\* C8: the general power-rule pattern flags "d/dx(x^N)=x^M" if and only if
\* N - 1 = M and N # 1.
C8_GeneralizationGuard ==
  Called =>
    \A t \in PowerShapes :
      expr = t[1] =>
        /\ power_general(normalize(expr)) <=> (t[2] - 1 = t[3] /\ t[2] # 1)
        /\ (result = PowerGeneralResult) <=> (t[2] - 1 = t[3] /\ t[2] # 1)

\* "d/dx(x^1)=x^0" is not flagged by the power-rule detector.
C8_Witness ==
  /\ Called
  /\ expr = PowerText(1, 0)
  /\ result.rule_id # "power_rule_missing_coefficient"

IndexIn(seq, x) == CHOOSE i \in 1..Len(seq) : seq[i] = x

\* C9: every call mutates the log exactly once, before the equality check is
\* consulted; the detectors run in the order power-rule, binomial, and stop at
\* the first result, which is recorded once; with no result the log is reset
\* once and nothing is recorded.
C9_OneMutationInOrder ==
  Called =>
    /\ Count(trace, "log.record") + Count(trace, "log.reset") = 1
    /\ trace[1] = "hint_power_rule"
    /\ Count(trace, "hint_power_rule") = 1
    /\ Count(trace, "hint_freshman_dream") <= 1
    /\ Count(trace, "hint_freshman_dream") = 1 <=> hint_power_rule(expr) = NoResult
    /\ Count(trace, "hint_freshman_dream") = 1 => trace[2] = "hint_freshman_dream"
    /\ Count(trace, "log.record") = 1 <=> result # NoResult
    /\ Count(trace, "log.record") = 1 => trace[Len(trace)] = "log.record"
    /\ Count(trace, "sp.simplify") <= 1
    /\ Count(trace, "sp.simplify") = 1 =>
         /\ Count(trace, "log.reset") = 1
         /\ IndexIn(trace, "log.reset") < IndexIn(trace, "sp.simplify")
    /\ simplify_outcome # NotCalled <=> Count(trace, "sp.simplify") = 1
    /\ result.rule_id = "power_rule_missing_coefficient" =>
         trace = <<"hint_power_rule", "log.record">>

C9_Witness ==
  trace = <<"hint_power_rule", "hint_freshman_dream", "sp.expand", "log.reset", "sp.simplify">>

\* C10: detections of one rule by different patterns share one streak:
\* "d/dx(x^2)=x" and then "d/dx(x^3)=x^2" on a fresh log leaves the streak at 2
\* and returns the escalated text of the pattern of the second call.
C10_SharedStreak ==
  [][ pc' = "loop" =>
        /\ (/\ result # NoResult
            /\ result'.rule_id = result.rule_id
            /\ result'.base_hint # result.base_hint) =>
              /\ streak' = streak + 1
              /\ analyze_streak' = analyze_streak + 1
              /\ hint' = result'.escalated_hint
        /\ (/\ expr = PowerLiteralText /\ result = PowerLiteralResult /\ streak = 1
            /\ expr' = PowerText(3, 2)) =>
              /\ streak' = 2
              /\ result' = PowerGeneralResult
              /\ hint' = PowerGeneralResult.escalated_hint
        /\ (/\ result = DreamLiteralResult /\ streak = 1
            /\ result' = DreamSymbolicResult) =>
              /\ streak' = 2
              /\ hint' = DreamSymbolicResult.escalated_hint
    ]_vars

C10_Witness ==
  /\ expr = PowerText(3, 2)
  /\ result = PowerGeneralResult
  /\ streak = 2
  /\ hint = PowerGeneralResult.escalated_hint

====
